---- MODULE Spec2Model ----
(***************************************************************************)
(* A model of the orbital_api Python package (src/orbital_api/__init__.py):*)
(* the Postback descriptor (validate, parse) and the REST Client.          *)
(*                                                                         *)
(* Postback strings are modelled as sequences of one-character strings, so *)
(* that str.split(" ") and the quote normalisation work on characters.     *)
(***************************************************************************)
EXTENDS Integers, Sequences, FiniteSets, TLC

VARIABLES
    op,      \* the method the caller invoked last ("init": none yet)
    pb,      \* the Postback object's nine fields
    pre,     \* the Postback object's fields when the last call started
    data,    \* the argument of the last parse call
    ret,     \* the value the last Postback call returned
    client,  \* the Client object's four fields
    made,    \* the Client object's fields as constructed
    before,  \* the Client object's fields when the last call started
    args,    \* the arguments of the last Client call
    net,     \* what the transport answered to the last request
    sent,    \* the requests the last Client call issued, in order
    printed, \* the number of diagnostic lines the last Client call printed
    out      \* the outcome of the last Client call: a value or an exception

pbvars == <<pb, pre, data, ret>>
cvars == <<client, made, before, args, net, sent, printed, out>>
vars == <<op, pb, pre, data, ret,
          client, made, before, args, net, sent, printed, out>>

----------------------------------------------------------------------------
(* Bounds                                                                  *)

\* Largest number of tokens in a parse input.
MaxTokens == 9

\* Largest number of blank tokens ('' or "" or nothing) in a parse input.
MaxBlanks == 1

\* Largest number of non-default arguments of the constructor before a parse.
MaxArgs == 1

\* Largest number of tokens of the inputs parsed from every prior state.
MaxShortTokens == 2

----------------------------------------------------------------------------
(* Strings                                                                 *)

EMPTY == <<>>
SQ == "'"
DQ == "\""
SPACE == " "

CTIM == <<"c", "t", "i", "m">>
SPLUNK == <<"s", "p", "l", "u", "n", "k">>
S3 == <<"s", "3">>

\* A non-empty value that is no format name, and a format name the code
\* does not know.
FILLED == <<"u">>
BOGUS == <<"c", "s", "v">>

\* The positional fields of parse, in the order of the source's comment
\* "<URL> [token [fingerprint [format [bucket region accesskey secretkey]]]]".
Positional ==
    <<"URL", "token", "fingerprint", "format",
      "bucket", "region", "accesskey", "secretkey">>

Fields == {"webhookid"} \cup {Positional[i] : i \in 1..8}

\* Postback.__init__ with its default arguments.
Postback ==
    [webhookid |-> EMPTY, URL |-> EMPTY, token |-> EMPTY,
     fingerprint |-> EMPTY, format |-> EMPTY, bucket |-> EMPTY,
     region |-> EMPTY, accesskey |-> EMPTY, secretkey |-> EMPTY]

----------------------------------------------------------------------------
(* Postback.validate                                                       *)

\* validate with rule 3 applied to every format: "ctim" needs a URL too.
validate_urlAlways(self) ==
    IF self.webhookid # EMPTY THEN TRUE
    ELSE IF self.format # EMPTY /\ self.format # CTIM
            /\ self.format # SPLUNK /\ self.format # S3 THEN FALSE
    ELSE IF self.URL = EMPTY THEN FALSE
    ELSE IF self.format = SPLUNK /\ self.token = EMPTY THEN FALSE
    ELSE IF self.format = S3
            /\ (self.bucket = EMPTY \/ self.region = EMPTY
                \/ self.accesskey = EMPTY \/ self.secretkey = EMPTY) THEN FALSE
    ELSE TRUE

\* validate without rule 4: "splunk" passes without a token.
validate_noSplunkRule(self) ==
    IF self.webhookid # EMPTY THEN TRUE
    ELSE IF self.format # EMPTY /\ self.format # CTIM
            /\ self.format # SPLUNK /\ self.format # S3 THEN FALSE
    ELSE IF self.format # CTIM /\ self.URL = EMPTY THEN FALSE
    ELSE IF self.format = S3
            /\ (self.bucket = EMPTY \/ self.region = EMPTY
                \/ self.accesskey = EMPTY \/ self.secretkey = EMPTY) THEN FALSE
    ELSE TRUE

validate(self) ==
    IF self.webhookid # EMPTY THEN TRUE
    ELSE IF self.format # EMPTY /\ self.format # CTIM
            /\ self.format # SPLUNK /\ self.format # S3 THEN FALSE
    ELSE IF self.format # CTIM /\ self.URL = EMPTY THEN FALSE
    ELSE IF self.format = SPLUNK /\ self.token = EMPTY THEN FALSE
    ELSE IF self.format = S3
            /\ (self.bucket = EMPTY \/ self.region = EMPTY
                \/ self.accesskey = EMPTY \/ self.secretkey = EMPTY) THEN FALSE
    ELSE TRUE

----------------------------------------------------------------------------
(* Postback.parse                                                          *)

\* str.split(" "): scan the characters, closing a token at every space.
RECURSIVE SplitFrom(_, _, _, _)
SplitFrom(s, i, cur, acc) ==
    IF i > Len(s) THEN Append(acc, cur)
    ELSE IF s[i] = SPACE THEN SplitFrom(s, i + 1, EMPTY, Append(acc, cur))
    ELSE SplitFrom(s, i + 1, Append(cur, s[i]), acc)

split(s) == SplitFrom(s, 1, EMPTY, <<>>)

\* The loop with only the test for a pair of single quotes.
unquote_singleOnly(tokens) ==
    [i \in 1..Len(tokens) |->
        IF tokens[i] = <<SQ, SQ>> THEN EMPTY ELSE tokens[i]]

\* The loop of lines 60-62: a token that is '' or "" becomes empty.
unquote(tokens) ==
    [i \in 1..Len(tokens) |->
        IF tokens[i] = <<SQ, SQ>> \/ tokens[i] = <<DQ, DQ>>
        THEN EMPTY ELSE tokens[i]]

\* The assignments self.URL = tokens[0], ... for the first n fields.
assign(self, tokens, n) ==
    [f \in Fields |->
        IF \E i \in 1..n : Positional[i] = f
        THEN tokens[CHOOSE i \in 1..n : Positional[i] = f]
        ELSE self[f]]

\* parse with "len(tokens) >= 4" for the four-token case, so that five to
\* seven tokens set the first four fields.
parse_atLeastFour(self, d) ==
    LET raw == split(d) IN
    IF Len(raw) > 8 THEN [self |-> self, ret |-> FALSE]
    ELSE
      LET tokens == unquote(raw)
          n == Len(tokens)
          set(k) == LET s == assign(self, tokens, k)
                    IN [self |-> s, ret |-> validate(s)]
      IN IF n = 8 THEN set(8)
         ELSE IF n >= 4 THEN set(4)
         ELSE IF n = 3 THEN set(3)
         ELSE IF n = 2 THEN set(2)
         ELSE IF n = 1 THEN set(1)
         ELSE [self |-> self, ret |-> FALSE]

\* parse that restores the fields when validate fails.
parse_rollback(self, d) ==
    LET raw == split(d) IN
    IF Len(raw) > 8 THEN [self |-> self, ret |-> FALSE]
    ELSE
      LET tokens == unquote(raw)
          n == Len(tokens)
          set(k) == LET s == assign(self, tokens, k)
                    IN IF validate(s) THEN [self |-> s, ret |-> TRUE]
                       ELSE [self |-> self, ret |-> FALSE]
      IN IF n = 8 THEN set(8)
         ELSE IF n > 4 THEN [self |-> self, ret |-> FALSE]
         ELSE IF n = 4 THEN set(4)
         ELSE IF n = 3 THEN set(3)
         ELSE IF n = 2 THEN set(2)
         ELSE IF n = 1 THEN set(1)
         ELSE [self |-> self, ret |-> FALSE]

\* parse(self, data): the fields afterwards and the returned value.
parse(self, d) ==
    LET raw == split(d) IN
    IF Len(raw) > 8 THEN [self |-> self, ret |-> FALSE]
    ELSE
      LET tokens == unquote(raw)
          n == Len(tokens)
          set(k) == LET s == assign(self, tokens, k)
                    IN [self |-> s, ret |-> validate(s)]
      IN IF n = 8 THEN set(8)
         ELSE IF n > 4 THEN [self |-> self, ret |-> FALSE]
         ELSE IF n = 4 THEN set(4)
         ELSE IF n = 3 THEN set(3)
         ELSE IF n = 2 THEN set(2)
         ELSE IF n = 1 THEN set(1)
         ELSE [self |-> self, ret |-> FALSE]

----------------------------------------------------------------------------
(* Inputs                                                                  *)

\* The values a caller passes or assigns per field.
FormatValues == {EMPTY, CTIM, SPLUNK, S3, BOGUS}

FieldValues(f) == IF f = "format" THEN FormatValues ELSE {EMPTY, FILLED}

\* Every record Postback(webhookid=..., URL=..., ...) can construct.
Postbacks ==
    [webhookid : FieldValues("webhookid"), URL : FieldValues("URL"),
     token : FieldValues("token"), fingerprint : FieldValues("fingerprint"),
     format : FieldValues("format"), bucket : FieldValues("bucket"),
     region : FieldValues("region"), accesskey : FieldValues("accesskey"),
     secretkey : FieldValues("secretkey")]

\* The three ways to write an empty positional token.
Blanks == {EMPTY, <<SQ, SQ>>, <<DQ, DQ>>}

TokenValues(i) ==
    (IF i = 4 THEN FormatValues \ {EMPTY} ELSE {FILLED}) \cup Blanks

\* The token lists for positions i..n that hold at most b blank tokens.
RECURSIVE TokenListsFrom(_, _, _)
TokenListsFrom(i, n, b) ==
    IF i > n THEN {<<>>}
    ELSE {<<t>> \o rest : t \in TokenValues(i) \ Blanks,
                          rest \in TokenListsFrom(i + 1, n, b)}
         \cup (IF b = 0 THEN {}
               ELSE {<<t>> \o rest : t \in Blanks,
                                     rest \in TokenListsFrom(i + 1, n, b - 1)})

TokenLists == UNION {TokenListsFrom(1, n, MaxBlanks) : n \in 1..MaxTokens}

\* " ".join(tokens)
RECURSIVE join(_)
join(ts) ==
    IF Len(ts) = 1 THEN ts[1]
    ELSE ts[1] \o <<SPACE>> \o join(Tail(ts))

Inputs == {join(ts) : ts \in TokenLists}

----------------------------------------------------------------------------
(* Client: construction and URL table                                      *)

\* Client.__init__(host, insecure, token, verbose)
Client(host, insecure, token, verbose) ==
    [host |-> host, verify |-> ~insecure, token |-> token, verbose |-> verbose]

\* The dictionary built by get_url for the identifiers uid and uid2.
urls(uid, uid2) ==
    [logon |-> "/v0/oauth2/token",
     ok |-> "/v0/ok",
     probe |-> "/v0/probe",
     query_create |-> "/v0/query",
     query_disable |-> "/v0/query/" \o uid,
     results |-> "/v0/jobs/" \o uid \o "/results",
     stock |-> "/v0/stock",
     webhook_post |-> "/v0/webhooks",
     webhook_patch |-> "/v0/webhooks/" \o uid,
     webhook_get |-> "/v0/webhooks/" \o uid,
     webhook_list |-> "/v0/webhooks",
     webhook_sendresult |-> "/v0/webhooks/" \o uid \o "/results/" \o uid2,
     features_get |-> "/v0/features/" \o uid,
     features_list |-> "/v0/features"]

\* get_url(self, operation, uid, uid2): the URL, or the exception of the
\* raise statement for an operation the dictionary does not hold.
get_url(self, operation, uid, uid2) ==
    LET table == urls(uid, uid2)
        url == IF operation \in DOMAIN table THEN table[operation] ELSE ""
    IN IF url = "" THEN [raised |-> TRUE, url |-> ""]
       ELSE [raised |-> FALSE, url |-> self.host \o url]

----------------------------------------------------------------------------
(* Client: requests                                                        *)

\* The outcome of a call that raised exception e after issuing requests rs.
Raise(self, rs, lines, e) ==
    [self |-> self, sent |-> rs, printed |-> lines,
     ret |-> [kind |-> "raised", value |-> e]]

\* The outcome of a call that returned v of the given kind.
Value(self, rs, lines, kind, v) ==
    [self |-> self, sent |-> rs, printed |-> lines,
     ret |-> [kind |-> kind, value |-> v]]

\* The body text that is a JSON document, and what it decodes to.
TokenJson == "{\"token\": \"srv\"}"

\* r.json(): the decoded body, or the decoder's exception.
json(r) ==
    IF r.text = TokenJson THEN [kind |-> "json", value |-> [token |-> "srv"]]
    ELSE [kind |-> "raised", value |-> "JSONDecodeError"]

\* r.status_code
status_code(r) == [kind |-> "status_code", value |-> r.status]

\* _req with the Authorization header holding the token alone.
_req_bareToken(self, verb, url, body, params) ==
    [verb |-> verb, url |-> url, hasBody |-> TRUE,
     json |-> body, params |-> params,
     verify |-> self.verify,
     headers |-> [ContentType |-> "application/json",
                  Authorization |-> self.token]]

\* _req(self, verb, url, data, params): the request handed to
\* requests.request.  The body is the set of keys of the JSON object and
\* params the set of key-value pairs; a missing argument (None) and an
\* empty one both give {} ("data or {}", "params or {}").
_req(self, verb, url, body, params) ==
    [verb |-> verb, url |-> url, hasBody |-> TRUE,
     json |-> body, params |-> params,
     verify |-> self.verify,
     headers |-> [ContentType |-> "application/json",
                  Authorization |-> "Bearer " \o self.token]]

\* The print of _req and of login runs once when verbose is set.
lines(self) == IF self.verbose THEN 1 ELSE 0

\* The shape shared by the thirteen authenticated methods: resolve the URL
\* (an argument of the _req call, so evaluated first), issue the request,
\* and on a response apply the given decoder ("json" or "status_code").
authenticated(self, verb, u, body, params, n, decoder) ==
    IF u.raised THEN Raise(self, <<>>, 0, "unexpected operation")
    ELSE LET rq == _req(self, verb, u.url, body, params) IN
         IF n.kind = "error" THEN Raise(self, <<rq>>, 0, "transport")
         ELSE LET v == IF decoder = "json" THEN json(n) ELSE status_code(n)
              IN [self |-> self, sent |-> <<rq>>, printed |-> lines(self),
                  ret |-> v]

----------------------------------------------------------------------------
(* Client: base64.standard_b64encode(bytearray(apikey, 'utf-8'))           *)

B64Alphabet ==
    <<"A", "B", "C", "D", "E", "F", "G", "H", "I", "J", "K", "L", "M",
      "N", "O", "P", "Q", "R", "S", "T", "U", "V", "W", "X", "Y", "Z",
      "a", "b", "c", "d", "e", "f", "g", "h", "i", "j", "k", "l", "m",
      "n", "o", "p", "q", "r", "s", "t", "u", "v", "w", "x", "y", "z",
      "0", "1", "2", "3", "4", "5", "6", "7", "8", "9", "+", "/">>

\* The UTF-8 bytes of a sequence of code points below 2048.
RECURSIVE utf8(_)
utf8(cps) ==
    IF cps = <<>> THEN <<>>
    ELSE LET c == Head(cps) IN
         (IF c < 128 THEN <<c>>
          ELSE <<192 + (c \div 64), 128 + (c % 64)>>) \o utf8(Tail(cps))

\* Three bytes give four characters; one or two left over are padded.
RECURSIVE standard_b64encode(_)
standard_b64encode(bytes) ==
    LET ch(k) == B64Alphabet[k + 1] IN
    IF Len(bytes) = 0 THEN ""
    ELSE IF Len(bytes) = 1 THEN
        ch(bytes[1] \div 4) \o ch((bytes[1] % 4) * 16) \o "=="
    ELSE IF Len(bytes) = 2 THEN
        ch(bytes[1] \div 4) \o ch((bytes[1] % 4) * 16 + (bytes[2] \div 16))
        \o ch((bytes[2] % 16) * 4) \o "="
    ELSE
        ch(bytes[1] \div 4) \o ch((bytes[1] % 4) * 16 + (bytes[2] \div 16))
        \o ch((bytes[2] % 16) * 4 + (bytes[3] \div 64)) \o ch(bytes[3] % 64)
        \o standard_b64encode(SubSeq(bytes, 4, Len(bytes)))

----------------------------------------------------------------------------
(* Client: the public methods.  Each takes the object, its arguments and   *)
(* the transport's answer n to the request it issues, and gives the object *)
(* afterwards, the requests issued, the lines printed and the outcome.     *)

\* login that stores the access token of the response in self.token.
login_storesToken(self, apikey, n) ==
    LET u == get_url(self, "logon", "", "") IN
    IF u.raised THEN Raise(self, <<>>, 0, "unexpected operation")
    ELSE LET rq == [verb |-> "POST", url |-> u.url, hasBody |-> FALSE,
                    json |-> {}, params |-> {}, verify |-> self.verify,
                    headers |->
                      [ContentType |-> "application/json",
                       Authorization |->
                         "Basic " \o standard_b64encode(utf8(apikey))]] IN
         IF n.kind = "error" THEN Raise(self, <<rq>>, 0, "transport")
         ELSE LET v == json(n) IN
              [self |-> IF v.kind = "json"
                        THEN [self EXCEPT !.token = v.value.token] ELSE self,
               sent |-> <<rq>>, printed |-> lines(self), ret |-> v]

login(self, apikey, n) ==
    LET u == get_url(self, "logon", "", "") IN
    IF u.raised THEN Raise(self, <<>>, 0, "unexpected operation")
    ELSE LET rq == [verb |-> "POST", url |-> u.url, hasBody |-> FALSE,
                    json |-> {}, params |-> {}, verify |-> self.verify,
                    headers |->
                      [ContentType |-> "application/json",
                       Authorization |->
                         "Basic " \o standard_b64encode(utf8(apikey))]] IN
         IF n.kind = "error" THEN Raise(self, <<rq>>, 0, "transport")
         ELSE [self |-> self, sent |-> <<rq>>, printed |-> lines(self),
               ret |-> json(n)]

ok(self, n) ==
    authenticated(self, "GET", get_url(self, "ok", "", ""), {}, {}, n, "json")

probe(self, n) ==
    authenticated(self, "POST", get_url(self, "probe", "", ""),
                  {"expiry", "nodes", "os", "osQuery", "stock", "stockargs"},
                  {}, n, "json")

\* query_disable that decodes the body like the other methods.
query_disable_decodes(self, query_id, n) ==
    authenticated(self, "DELETE", get_url(self, "query_disable", query_id, ""),
                  {}, {}, n, "json")

query_disable(self, query_id, n) ==
    authenticated(self, "DELETE", get_url(self, "query_disable", query_id, ""),
                  {}, {}, n, "status_code")

query_create(self, n) ==
    authenticated(self, "POST", get_url(self, "query_create", "", ""),
                  {"interval", "expiry", "nodes", "os", "postbacks", "osQuery",
                   "stock", "stockargs", "context"},
                  {}, n, "json")

\* results that sets the cursor parameter whatever its value.
results_alwaysCursor(self, jobid, cursor, n) ==
    authenticated(self, "GET", get_url(self, "results", jobid, ""), {},
                  {<<"cursor", cursor>>}, n, "json")

results(self, jobid, cursor, n) ==
    LET params == IF cursor # "" THEN {<<"cursor", cursor>>} ELSE {} IN
    authenticated(self, "GET", get_url(self, "results", jobid, ""), {},
                  params, n, "json")

stock(self, n) ==
    authenticated(self, "GET", get_url(self, "stock", "", ""), {}, {}, n,
                  "json")

webhook_create(self, n) ==
    authenticated(self, "POST", get_url(self, "webhook_post", "", ""),
                  {"disabled", "config"}, {}, n, "json")

\* webhook_update that looks its URL up under its own name.
webhook_update_ownName(self, wid, n) ==
    authenticated(self, "PATCH", get_url(self, "webhook_update", wid, ""),
                  {"id", "disabled", "config"}, {}, n, "json")

webhook_update(self, wid, n) ==
    authenticated(self, "PATCH", get_url(self, "webhook_patch", wid, ""),
                  {"id", "disabled", "config"}, {}, n, "json")

webhook_get(self, wid, n) ==
    authenticated(self, "GET", get_url(self, "webhook_get", wid, ""), {}, {},
                  n, "json")

webhook_list(self, n) ==
    authenticated(self, "GET", get_url(self, "webhook_list", "", ""), {}, {},
                  n, "json")

webhook_sendresult(self, webhookID, resultID, n) ==
    authenticated(self, "POST",
                  get_url(self, "webhook_sendresult", webhookID, resultID),
                  {}, {}, n, "json")

features_get(self, fid, n) ==
    authenticated(self, "GET", get_url(self, "features_get", fid, ""), {}, {},
                  n, "json")

features_list(self, n) ==
    authenticated(self, "GET", get_url(self, "features_list", "", ""), {}, {},
                  n, "json")

----------------------------------------------------------------------------
(* The caller of a Client                                                  *)

Hosts == {"https://orbital", "http://127.0.0.1:8080"}

\* "srv" is the token the service issues in the body of a login response.
Tokens == {"", "t1", "srv"}

Ids == {"J1", "w2"}

Cursors == {"", "c9"}

\* API keys as sequences of code points: "", "f", "fo", "foo", "id:pw" and
\* the two-byte character U+00E9.
ApiKeys == {<<>>,
            <<102>>,
            <<102, 111>>,
            <<102, 111, 111>>,
            <<105, 100, 58, 112, 119>>,
            <<233>>}

\* The transport answers with a response or fails with an exception.
Outcomes ==
    [kind : {"response"}, status : {200, 500}, text : {TokenJson, ""}]
    \cup {[kind |-> "error", status |-> 0, text |-> ""]}

NoArgs == [apikey |-> <<>>, uid |-> "", uid2 |-> "", cursor |-> ""]

NoOutcome == [kind |-> "none", status |-> 0, text |-> ""]

----------------------------------------------------------------------------
(* The caller of a Postback                                                *)

\* The inputs of at most MaxShortTokens tokens.
ShortInputs ==
    {join(ts) : ts \in UNION {TokenListsFrom(1, n, n) : n \in 1..MaxShortTokens}}

\* The records a constructor call with at most k non-default arguments makes.
ConstructedWith(k) ==
    {p \in Postbacks : Cardinality({f \in Fields : p[f] # EMPTY}) <= k}

\* p = Postback(...)
Construct(S) ==
    /\ op = "init"
    /\ pb \in S
    /\ pre = pb
    /\ data = EMPTY
    /\ ret = FALSE
    /\ client = Client("", FALSE, "", FALSE)
    /\ made = client
    /\ before = client
    /\ args = NoArgs
    /\ net = NoOutcome
    /\ sent = <<>>
    /\ printed = 0
    /\ out = [kind |-> "none", value |-> ""]

\* ok = p.validate()
Validate ==
    /\ op' = "validate"
    /\ pre' = pb
    /\ ret' = validate(pb)
    /\ UNCHANGED <<pb, data>>
    /\ UNCHANGED cvars

\* p.<field> = v
Assign ==
    /\ \E f \in Fields : \E v \in FieldValues(f) :
          pb' = [pb EXCEPT ![f] = v]
    /\ op' = "assign"
    /\ pre' = pb
    /\ ret' = FALSE
    /\ UNCHANGED data
    /\ UNCHANGED cvars

\* ok = p.parse(d), on an object constructed fresh for this use.
ParseFrom(S) ==
    /\ op = "init"
    /\ \E d \in S :
          LET r == parse(pb, d) IN
          /\ pb' = r.self
          /\ ret' = r.ret
          /\ data' = d
    /\ op' = "parse"
    /\ pre' = pb
    /\ UNCHANGED cvars

Parse == ParseFrom(Inputs)

ParseShort == ParseFrom(ShortInputs)

\* Any record, validated and assigned to in any order.
InitValidate == Construct(Postbacks)
NextValidate == Validate \/ Assign
SpecValidate == InitValidate /\ [][NextValidate]_vars

\* A record constructed with few arguments, then one parse of any input.
InitParse == Construct(ConstructedWith(MaxArgs))
NextParse == Parse
SpecParse == InitParse /\ [][NextParse]_vars

\* Any record, then one parse of a short input.
InitParseAny == Construct(Postbacks)
NextParseAny == ParseShort
SpecParseAny == InitParseAny /\ [][NextParseAny]_vars

----------------------------------------------------------------------------
(* The calls on a Client                                                   *)

\* c = Client(host, insecure, token, verbose)
InitClient ==
    /\ op = "init"
    /\ pb = Postback
    /\ pre = pb
    /\ data = EMPTY
    /\ ret = FALSE
    /\ \E h \in Hosts : \E insecure \in BOOLEAN :
       \E t \in Tokens : \E v \in BOOLEAN :
          client = Client(h, insecure, t, v)
    /\ made = client
    /\ before = client
    /\ args = NoArgs
    /\ net = NoOutcome
    /\ sent = <<>>
    /\ printed = 0
    /\ out = [kind |-> "none", value |-> ""]

\* c.token = t
SetToken ==
    /\ \E t \in Tokens : client' = [client EXCEPT !.token = t]
    /\ op' = "assign"
    /\ before' = client
    /\ args' = NoArgs
    /\ net' = NoOutcome
    /\ sent' = <<>>
    /\ printed' = 0
    /\ out' = [kind |-> "none", value |-> ""]
    /\ UNCHANGED <<made, pbvars>>

\* The effect of the method name called with arguments a when the transport
\* answers n and the method's operator gives r.
Call(name, a, n, r) ==
    /\ op' = name
    /\ before' = client
    /\ args' = a
    /\ net' = IF r.sent = <<>> THEN NoOutcome ELSE n
    /\ client' = r.self
    /\ sent' = r.sent
    /\ printed' = r.printed
    /\ out' = r.ret
    /\ UNCHANGED <<made, pbvars>>

Login ==
    \E k \in ApiKeys, n \in Outcomes :
        Call("login", [NoArgs EXCEPT !.apikey = k], n, login(client, k, n))

Ok == \E n \in Outcomes : Call("ok", NoArgs, n, ok(client, n))

Probe == \E n \in Outcomes : Call("probe", NoArgs, n, probe(client, n))

QueryCreate ==
    \E n \in Outcomes : Call("query_create", NoArgs, n, query_create(client, n))

QueryDisable ==
    \E id \in Ids, n \in Outcomes :
        Call("query_disable", [NoArgs EXCEPT !.uid = id], n,
             query_disable(client, id, n))

Results ==
    \E id \in Ids, c \in Cursors, n \in Outcomes :
        Call("results", [NoArgs EXCEPT !.uid = id, !.cursor = c], n,
             results(client, id, c, n))

Stock == \E n \in Outcomes : Call("stock", NoArgs, n, stock(client, n))

WebhookCreate ==
    \E n \in Outcomes :
        Call("webhook_create", NoArgs, n, webhook_create(client, n))

WebhookUpdate ==
    \E id \in Ids, n \in Outcomes :
        Call("webhook_update", [NoArgs EXCEPT !.uid = id], n,
             webhook_update(client, id, n))

WebhookGet ==
    \E id \in Ids, n \in Outcomes :
        Call("webhook_get", [NoArgs EXCEPT !.uid = id], n,
             webhook_get(client, id, n))

WebhookList ==
    \E n \in Outcomes : Call("webhook_list", NoArgs, n, webhook_list(client, n))

WebhookSendresult ==
    \E id \in Ids, id2 \in Ids, n \in Outcomes :
        Call("webhook_sendresult", [NoArgs EXCEPT !.uid = id, !.uid2 = id2], n,
             webhook_sendresult(client, id, id2, n))

FeaturesGet ==
    \E id \in Ids, n \in Outcomes :
        Call("features_get", [NoArgs EXCEPT !.uid = id], n,
             features_get(client, id, n))

FeaturesList ==
    \E n \in Outcomes :
        Call("features_list", NoArgs, n, features_list(client, n))

NextClient ==
    \/ SetToken
    \/ Login
    \/ Ok
    \/ Probe
    \/ QueryCreate
    \/ QueryDisable
    \/ Results
    \/ Stock
    \/ WebhookCreate
    \/ WebhookUpdate
    \/ WebhookGet
    \/ WebhookList
    \/ WebhookSendresult
    \/ FeaturesGet
    \/ FeaturesList

SpecClient == InitClient /\ [][NextClient]_vars

----------------------------------------------------------------------------
(* The rule table of validate and the tokens of an input, stated without   *)
(* the code's control flow                                                 *)

\* The ordered rules: the first rule whose condition holds gives the verdict.
Rules(p) ==
    <<[when |-> p.webhookid # EMPTY, valid |-> TRUE],
      [when |-> p.format # EMPTY /\ p.format \notin {CTIM, SPLUNK, S3},
       valid |-> FALSE],
      [when |-> p.format # CTIM /\ p.URL = EMPTY, valid |-> FALSE],
      [when |-> p.format = SPLUNK /\ p.token = EMPTY, valid |-> FALSE],
      [when |-> p.format = S3
                /\ \E f \in {"bucket", "region", "accesskey", "secretkey"} :
                      p[f] = EMPTY,
       valid |-> FALSE],
      [when |-> TRUE, valid |-> TRUE]>>

RuleVerdict(p) ==
    LET rs == Rules(p)
        first == CHOOSE i \in 1..Len(rs) :
                    rs[i].when /\ \A j \in 1..(i - 1) : ~rs[j].when
    IN rs[first].valid

\* The positions of the spaces of s, and the position of its k-th space
\* (0 before the first token, Len(s) + 1 after the last).
Spaces(s) == {i \in 1..Len(s) : s[i] = SPACE}

TokenCount(s) == Cardinality(Spaces(s)) + 1

Boundary(s, k) ==
    IF k = 0 THEN 0
    ELSE IF k = TokenCount(s) THEN Len(s) + 1
    ELSE CHOOSE i \in Spaces(s) :
            Cardinality({j \in Spaces(s) : j < i}) = k - 1

\* The k-th token: the characters between two neighbouring boundaries.
Token(s, k) == SubSeq(s, Boundary(s, k - 1) + 1, Boundary(s, k) - 1)

\* A token with a pair of quotes read as the empty string.
Normal(t) == IF t = <<SQ, SQ>> \/ t = <<DQ, DQ>> THEN EMPTY ELSE t

Accepted == {1, 2, 3, 4, 8}

S3Fields == {"bucket", "region", "accesskey", "secretkey"}

----------------------------------------------------------------------------
(* Claims about Postback                                                   *)

\* C1: for every combination of the fields, validate() returns the verdict
\* of the ordered rule table, and it changes no field.
C1_ValidateMatchesRuleTable ==
    op = "validate" => (ret = RuleVerdict(pb) /\ pb = pre)

\* C1 witness: an s3 record with only bucket set was validated and found
\* invalid (rule 5).
C1_Witness ==
    /\ op = "validate"
    /\ pb.webhookid = EMPTY /\ pb.format = S3 /\ pb.URL # EMPTY
    /\ pb.bucket # EMPTY /\ pb.region = EMPTY
    /\ ret = FALSE

\* C2: after parse of an input with 1, 2, 3, 4 or 8 tokens, the first n
\* positional fields hold the tokens in order, a pair of quotes read as the
\* empty string, and the result is what validate() gives on the record.
C2_ParseAssignsAndValidates ==
    (op = "parse" /\ TokenCount(data) \in Accepted) =>
        /\ \A i \in 1..TokenCount(data) :
              pb[Positional[i]] = Normal(Token(data, i))
        /\ ret = validate(pb)

\* C2 witness: an input of eight tokens with a quoted empty token was parsed
\* into a valid record.
C2_Witness ==
    /\ op = "parse"
    /\ TokenCount(data) = 8
    /\ \E i \in 1..8 : Token(data, i) = <<DQ, DQ>> /\ pb[Positional[i]] = EMPTY
    /\ pb.format = S3
    /\ ret = TRUE

\* C3: after parse of an input whose token count is not 1, 2, 3, 4 or 8,
\* the result is false and all nine fields are as before the call.
C3_BadCountLeavesRecord ==
    (op = "parse" /\ TokenCount(data) \notin Accepted) =>
        (ret = FALSE /\ pb = pre)

\* C3 witness: five tokens were parsed on a record that was not the default
\* one, and that would have been valid had the first four been assigned.
C3_Witness ==
    /\ op = "parse"
    /\ TokenCount(data) = 5
    /\ Token(data, 1) = FILLED /\ Token(data, 4) = CTIM
    /\ pre # Postback
    /\ pb = pre
    /\ ret = FALSE

\* C4 as stated: after parse of a single token only URL is set, and the
\* result is true if and only if format is empty.
C4_Original ==
    (op = "parse" /\ TokenCount(data) = 1) =>
        /\ pb.URL = Normal(Token(data, 1))
        /\ \A f \in Fields \ {"URL"} : pb[f] = pre[f]
        /\ ret = TRUE <=> pb.format = EMPTY

\* C4 amended: after parse of a single token only URL is set, and the result
\* is true if and only if webhookid is set, or format is ctim, or the token
\* is not empty and format is empty, or splunk with a token, or s3 with
\* bucket, region, accesskey and secretkey.
C4_SingleToken ==
    (op = "parse" /\ TokenCount(data) = 1) =>
        /\ pb.URL = Normal(Token(data, 1))
        /\ \A f \in Fields \ {"URL"} : pb[f] = pre[f]
        /\ ret = TRUE <=>
              \/ pre.webhookid # EMPTY
              \/ pre.format = CTIM
              \/ /\ Normal(Token(data, 1)) # EMPTY
                 /\ \/ pre.format = EMPTY
                    \/ pre.format = SPLUNK /\ pre.token # EMPTY
                    \/ pre.format = S3 /\ \A f \in S3Fields : pre[f] # EMPTY

\* C4 witness: a single token was parsed on a record whose format is splunk
\* and whose token was set before; URL changed and the result is true.
C4_Witness ==
    /\ op = "parse"
    /\ TokenCount(data) = 1
    /\ pre.webhookid = EMPTY /\ pre.URL = EMPTY
    /\ pre.format = SPLUNK /\ pre.token # EMPTY
    /\ pb.URL = FILLED
    /\ ret = TRUE

\* C10: parse never writes webhookid, and when the token count is accepted
\* and the result is false the covered fields hold the new tokens all the
\* same (no roll back).
C10_NoRollback ==
    op = "parse" =>
        /\ pb.webhookid = pre.webhookid
        /\ (TokenCount(data) \in Accepted /\ ret = FALSE) =>
              \A i \in 1..TokenCount(data) :
                 pb[Positional[i]] = Normal(Token(data, i))

\* C10 witness: parse returned false on an accepted count and the record
\* differs from the one before the call.
C10_Witness ==
    /\ op = "parse"
    /\ TokenCount(data) \in Accepted
    /\ ret = FALSE
    /\ pb # pre
    /\ pre.webhookid = EMPTY

----------------------------------------------------------------------------
(* The operation table of the service and known base64 encodings           *)

\* Method and path template per public method; "{id}" and "{resultId}" stand
\* for the first and second identifier of the call.
OperationTable ==
    [login |-> [verb |-> "POST", path |-> <<"/v0/oauth2/token">>],
     ok |-> [verb |-> "GET", path |-> <<"/v0/ok">>],
     probe |-> [verb |-> "POST", path |-> <<"/v0/probe">>],
     query_create |-> [verb |-> "POST", path |-> <<"/v0/query">>],
     query_disable |-> [verb |-> "DELETE", path |-> <<"/v0/query/", "{id}">>],
     results |-> [verb |-> "GET", path |-> <<"/v0/jobs/", "{id}", "/results">>],
     stock |-> [verb |-> "GET", path |-> <<"/v0/stock">>],
     webhook_create |-> [verb |-> "POST", path |-> <<"/v0/webhooks">>],
     webhook_update |->
         [verb |-> "PATCH", path |-> <<"/v0/webhooks/", "{id}">>],
     webhook_get |-> [verb |-> "GET", path |-> <<"/v0/webhooks/", "{id}">>],
     webhook_list |-> [verb |-> "GET", path |-> <<"/v0/webhooks">>],
     webhook_sendresult |->
         [verb |-> "POST",
          path |-> <<"/v0/webhooks/", "{id}", "/results/", "{resultId}">>],
     features_get |-> [verb |-> "GET", path |-> <<"/v0/features/", "{id}">>],
     features_list |-> [verb |-> "GET", path |-> <<"/v0/features">>]]

Methods == DOMAIN OperationTable

Authenticated == Methods \ {"login"}

\* A path template with the identifiers of call a put in.
RECURSIVE Fill(_, _)
Fill(path, a) ==
    IF path = <<>> THEN ""
    ELSE (IF Head(path) = "{id}" THEN a.uid
          ELSE IF Head(path) = "{resultId}" THEN a.uid2
          ELSE Head(path)) \o Fill(Tail(path), a)

\* The base64 encodings of the UTF-8 bytes of "", "f", "fo", "foo" (RFC 4648,
\* section 10), "id:pw" and U+00E9.
KnownBase64 ==
    {<<<<>>, "">>,
     <<<<102>>, "Zg==">>,
     <<<<102, 111>>, "Zm8=">>,
     <<<<102, 111, 111>>, "Zm9v">>,
     <<<<105, 100, 58, 112, 119>>, "aWQ6cHc=">>,
     <<<<233>>, "w6k=">>}

Base64Of(k) == (CHOOSE e \in KnownBase64 : e[1] = k)[2]

Authorization(i) == sent[i].headers.Authorization

----------------------------------------------------------------------------
(* Claims about Client                                                     *)

\* C5: every request of login carries "Basic " followed by the base64 of the
\* API key, and every request of another method carries "Bearer " followed
\* by the token the client held when that call started.
C5_AuthorizationHeader ==
    /\ op = "login" =>
          \A i \in DOMAIN sent :
             Authorization(i) = "Basic " \o Base64Of(args.apikey)
    /\ op \in Authenticated =>
          \A i \in DOMAIN sent : Authorization(i) = "Bearer " \o before.token

\* C5 witness: an authenticated call went out with a token assigned after
\* construction.
C5_Witness ==
    /\ op = "ok"
    /\ made.token = "t1"
    /\ before.token = "srv"
    /\ Len(sent) = 1
    /\ Authorization(1) = "Bearer srv"

\* C6: no method changes host, verify, token or verbose, and the call that
\* follows a login carries the token the client held before the login.
C6_MethodsKeepClient ==
    /\ [](op \in Methods => client = before)
    /\ [][(op = "login" /\ op' \in Authenticated) =>
            \A i \in DOMAIN sent' :
               sent'[i].headers.Authorization = "Bearer " \o before.token]_vars

\* C6 witness: login returned a body whose access token differs from the
\* client's token, which is still the one from before the call.
C6_Witness ==
    /\ op = "login"
    /\ out.kind = "json"
    /\ out.value.token # client.token
    /\ client = before

\* C7: results issues its request to /v0/jobs/<jobid>/results, and the
\* parameters hold the key cursor, with the given value, exactly when the
\* cursor is not empty.
C7_ResultsCursor ==
    op = "results" =>
        /\ Len(sent) = 1
        /\ sent[1].url = before.host \o "/v0/jobs/" \o args.uid \o "/results"
        /\ (\E q \in sent[1].params : q[1] = "cursor") <=> args.cursor # ""
        /\ \A q \in sent[1].params : q[1] = "cursor" => q[2] = args.cursor

\* C7 witness: results was called without a cursor and the parameters are
\* empty.
C7_Witness ==
    /\ op = "results"
    /\ args.uid = "J1"
    /\ args.cursor = ""
    /\ Len(sent) = 1
    /\ sent[1].params = {}

\* C8: on every response query_disable returns its status code and raises
\* no decode error, and every other method returns the decoded body or
\* raises the decoder's error when the body is no JSON.
C8_DisableReturnsStatus ==
    (op \in Methods /\ net.kind = "response") =>
        IF op = "query_disable"
        THEN out = [kind |-> "status_code", value |-> net.status]
        ELSE IF net.text = TokenJson
        THEN out = [kind |-> "json", value |-> [token |-> "srv"]]
        ELSE out = [kind |-> "raised", value |-> "JSONDecodeError"]

\* C8 witness: query_disable got status 500 with a body that is no JSON and
\* returned 500.
C8_Witness ==
    /\ op = "query_disable"
    /\ net.kind = "response"
    /\ net.status = 500
    /\ net.text = ""
    /\ out.kind = "status_code"
    /\ out.value = 500

\* C9: every call of a public method issues exactly one request, with the
\* method and path of the operation table under the client's host, and
\* never raises the unknown-operation error.
C9_OneRequestPerCall ==
    op \in Methods =>
        /\ Len(sent) = 1
        /\ sent[1].verb = OperationTable[op].verb
        /\ sent[1].url = before.host \o Fill(OperationTable[op].path, args)
        /\ ~(out.kind = "raised" /\ out.value = "unexpected operation")

\* C9 witness: webhook_sendresult failed in the transport after its single
\* request to the path with both identifiers.
C9_Witness ==
    /\ op = "webhook_sendresult"
    /\ args.uid = "w2" /\ args.uid2 = "J1"
    /\ net.kind = "error"
    /\ Len(sent) = 1
    /\ sent[1].url = before.host \o "/v0/webhooks/w2/results/J1"
    /\ out.kind = "raised"

====
